---- MODULE Spec2Model ----
(***************************************************************************)
(* Model of the mp4 capture path of bevy_capture_media:                    *)
(*   manage_mp4_task          (src/formats/mp4.rs 42-124)                  *)
(*   the encode worker        (src/formats/mp4.rs 65-110)                  *)
(*   send_frame_to_mp4_tasks  (src/formats/mp4.rs 126-139)                 *)
(*   Mp4Task::is_done         (src/formats/mp4.rs 35-40)                   *)
(*   the PostUpdate schedule  (src/lib.rs 57-67)                           *)
(*   smuggle_frame            (src/render.rs 28-86)                        *)
(* The main thread runs the three PostUpdate systems once per tick in any  *)
(* order (lib.rs registers no ordering) and applies the deferred commands  *)
(* at the end of the schedule.  Every worker runs on the task pool and     *)
(* interleaves freely with the main thread.                                *)
(*                                                                         *)
(* Specifications:                                                         *)
(*   Spec        the main thread and the encode workers                    *)
(*   FairSpec    Spec, with the tick and the workers scheduled fairly      *)
(*   SpecConv    the worker's loop body on one frame, element by element   *)
(*   SpecRender  the render world's readback under the shared lock         *)
(***************************************************************************)
EXTENDS Integers, Sequences, FiniteSets, TLC

\* ---------------------------------------------------------------- bounds
MaxTasks  == 2     \* Start requests issued over a run (entities spawned)
MaxInputs == 4     \* what the environment does over a run: events sent, frames
                   \* read back, recorders untracked, images removed or
                   \* resized, encoder calls that fail
MaxMsgs   == 2     \* messages on one channel before the feed stops adding
MaxSecs   == 1     \* seconds the clock advances over a run

Ids       == {1, 2}                 \* tracking ids
TaskIds   == 1..MaxTasks            \* entities carrying an Mp4Task
Systems   == {"manage", "feed", "clean"}

\* width, height and pixel size of a target image
Dims == {[w |-> 1, h |-> 1, ps |-> 4], [w |-> 2, h |-> 1, ps |-> 4]}
Dim0 == [w |-> 1, h |-> 1, ps |-> 4]

\* Mp4TaskPayload
Data(d, n) == [type |-> "Data", frame_time |-> d, len |-> n]
Terminate  == [type |-> "Terminate", frame_time |-> 0, len |-> 0]

\* event.path: None, or the paths an application gives
NoPath == "none"
Paths  == {"out.mp4"}

\* Mp4Capture = CaptureFrame<Mp4State>
Mp4Capture(k, i, p) == [capture_type |-> k, tracking_id |-> i, path |-> p]

NoEvent == [capture_type |-> "none", tracking_id |-> 0, outcome |-> "none"]

\* frame_time of the n-th frame read back, in time-base units: the frames of
\* a run have growing, hence different, durations
FrameTime(n) == n

VARIABLES
  app,        \* "running" | "exited" | "panicked": the main thread / World
  events,     \* Events<Mp4Capture>, in arrival order
  recorders,  \* ActiveRecorders: the tracked ids
  images,     \* Assets<Image>: the ids whose target_handle resolves
  imgDims,    \* the size and format of each id's target image
  frames,     \* recorder.frames of each id (the back is the most recent)
  ran,        \* the PostUpdate systems that have run in the current tick
  draining,   \* manage_mp4_task is inside its 'event_drain loop
  tasks,      \* entities with an Mp4Task component (what Query<&Mp4Task> sees)
  pending,    \* commands.spawn(Mp4Task ..) not yet applied
  nextTask,   \* the next entity to spawn
  owner,      \* Mp4Task.2 of each entity (0 before the entity exists)
  dims,       \* width, height, target_format captured by the worker
  chan,       \* every message sent on the entity's channel, in order
  rp,         \* how many of them the worker has received
  wpc,        \* the worker's position
  position,   \* the worker's `position`
  enc,        \* the frames handed to encoder.encode, with their position
  finished,   \* "no" | "ok" | "failed": the call encoder.finish()
  exitVia,    \* how the worker left its receive loop
  last,       \* the event manage_mp4_task handled last in this tick, and
              \* what it did
  feedLost,   \* the tasks whose send failed in this tick's feed
  inputs,     \* how many of the MaxInputs are used
  file,       \* event.path as moved into the worker, then its file_name
  clock       \* the latest UNIX_EPOCH.elapsed().as_secs() a worker has read

\* one pass of the worker's loop body over one frame (mp4.rs 83-101)
VARIABLES
  cdim,       \* width, height and format.pixel_size() captured by the worker
  cdata,      \* frame_data, the bytes of the frame received
  cpc,        \* "idle" | "check" | "fill" | "encode" | "rejected" |
              \* "overflow" | "oob"
  cexp,       \* expected_size, a u32 as four base-256 digits
  cat,        \* the (h, w, c) from_shape_fn computes next
  cframe      \* the elements computed so far, in from_shape_fn's order

\* the render world: smuggle_frame (render.rs 28-86)
VARIABLES
  lock,       \* the Mutex of SharedDataSmuggler: "free" | "render" | "main" |
              \* "poisoned"
  last_frame, \* recorder.last_frame of each recorder in the smuggler
  rimages,    \* RenderAssets<Image>: the ids whose target_handle resolves
  rsize,      \* image.size and image.texture_format of each id's GPU image
  rpc,        \* smuggle_frame: "idle" | "iter" | "panicked"
  todo,       \* the recorders smugglers.iter_mut() has not yielded yet
  rtick,      \* the render ticks started
  mapErr      \* a map_async callback has received an error

vars == <<app, events, recorders, images, imgDims, frames, ran, draining,
          tasks, pending, nextTask, owner, dims, chan, rp, wpc, position,
          enc, finished, exitVia, last, feedLost, inputs, file, clock,
          cdim, cdata, cpc, cexp, cat, cframe,
          lock, last_frame, rimages, rsize, rpc, todo, rtick, mapErr>>

convVars   == <<cdim, cdata, cpc, cexp, cat, cframe>>
renderVars == <<lock, last_frame, rimages, rsize, rpc, todo, rtick, mapErr>>
auxVars    == <<convVars, renderVars>>

mainVars   == <<app, events, ran, draining, tasks, pending, nextTask, owner,
                dims, last, feedLost>>
envVars    == <<recorders, images, imgDims, frames>>
workerVars == <<rp, wpc, position, enc, finished, exitVia>>
countVars  == <<inputs>>
fileVars   == <<file, clock>>

\* ------------------------------------------------------------- helpers
Last(s) == s[Len(s)]

\* the receiver lives in the worker's future until the future is dropped
RxAlive(t) == wpc[t] \in {"init", "recv", "encode", "finish"}

\* the sender lives in the Mp4Task (or in the queued spawn command)
SenderAlive(t) == app = "running" /\ t \in tasks \cup pending

\* (variant: the image lookup is skipped)
ResolvableUnchecked(i) == i \in recorders

\* recorders.get(&event.tracking_id) and images.get(&recorder.target_handle)
Resolvable(i) == i \in recorders /\ i \in images

\* (variant: a find that falls back on any task when no owner matches)
StopTargetsAny(i) ==
  IF {t \in tasks : owner[t] = i} # {} THEN {t \in tasks : owner[t] = i}
  ELSE tasks

\* tasks.iter().find(|t| t.2 == event.tracking_id): the tasks it may return
StopTargets(i) == {t \in tasks : owner[t] = i}

\* width * height * format.pixel_size() as u32.  Every product over Dims and
\* every frame length of this specification is below 2^31, where the u32
\* arithmetic and the cast `as u32` are exact.
ExpectedSize(d) == d.w * d.h * d.ps

\* (variant: the length check is dropped)
FrameOkAny(d, n) == TRUE

\* expected_size != frame_data.len() as u32 is false
FrameOk(d, n) == ExpectedSize(d) = n

\* (variant: the sum is computed and not kept)
AdvanceLost(pos, d) == pos

\* position.aligned_with(frame_time.into()).add()
Advance(pos, d) == pos + d

\* (variant: a loop that only a closed channel ends)
AfterRecvLoop(m, d) ==
  IF m.type = "Data"
    THEN IF FrameOk(d, m.len) THEN "encode" ELSE "done"
    ELSE "recv"

\* `while let Ok(Data(..)) = receiver.recv()`: where a received message leads
AfterRecv(m, d) ==
  IF m.type = "Data"
    THEN IF FrameOk(d, m.len) THEN "encode" ELSE "done"
    ELSE "finish"

\* Mp4Task::is_done: poll_once(&mut self.0) yields Some once the future ended
IsDone(t) == wpc[t] = "done"

\* poll_once(&mut self.0) on a task whose future panicked: bevy's Task forwards
\* the poll to async_task::Task, which has no output to yield and panics in
\* the poller ("Task polled after completion")
PollPanics(t) == wpc[t] = "panicked"

\* (variant: the worker keeps encoding the first frame it was given)
InHandFirst(t) == chan[t][1]

\* the (frame_time, frame_data) bound by the `while let` for this iteration:
\* the message received last
InHand(t) == chan[t][rp[t]]

\* (variant: every task is fed from the first recorder)
FeedSourceFirst(t) == 1

\* the recorder whose back frame is sent to task t
FeedSource(t) == owner[t]

\* (variant: the recorder is not looked up, any non-empty buffer is sent)
FeedTargetsAll ==
  {t \in tasks : frames[FeedSource(t)] # <<>>}

\* the tasks send_frame_to_mp4_tasks sends a frame to
FeedTargets ==
  {t \in tasks : FeedSource(t) \in recorders /\ frames[FeedSource(t)] # <<>>}

\* (variant: the send is followed by .expect, as in the line commented out)
FeedAppExpect(lost) == IF lost = {} THEN "running" ELSE "panicked"

\* what the feed leaves of the main thread when the sends in `lost` failed
FeedApp(lost) == "running"

\* ------------------------------------------------------------------ Init
MainInit ==
  /\ app = "running"
  /\ events = <<>>
  /\ recorders = Ids
  /\ images = Ids
  /\ imgDims = [i \in Ids |-> Dim0]
  /\ frames = [i \in Ids |-> <<>>]
  /\ ran = {}
  /\ draining = FALSE
  /\ tasks = {}
  /\ pending = {}
  /\ nextTask = 1
  /\ owner = [t \in TaskIds |-> 0]
  /\ dims = [t \in TaskIds |-> Dim0]
  /\ chan = [t \in TaskIds |-> <<>>]
  /\ rp = [t \in TaskIds |-> 0]
  /\ wpc = [t \in TaskIds |-> "none"]
  /\ position = [t \in TaskIds |-> 0]
  /\ enc = [t \in TaskIds |-> <<>>]
  /\ finished = [t \in TaskIds |-> "no"]
  /\ exitVia = [t \in TaskIds |-> "none"]
  /\ last = NoEvent
  /\ feedLost = {}
  /\ inputs = 0
  /\ file = [t \in TaskIds |-> NoPath]
  /\ clock = 0

\* no frame is being converted
ConvIdle ==
  /\ cdim = Dim0
  /\ cdata = <<>>
  /\ cpc = "idle"
  /\ cexp = <<0, 0, 0, 0>>
  /\ cat = <<0, 0, 0>>
  /\ cframe = <<>>

\* recorder.last_frame = None
NoFrame == [len |-> 0, tick |-> 0]

\* the render world before its first tick, rendering 1x1 targets
RenderIdle ==
  /\ lock = "free"
  /\ last_frame = [i \in Ids |-> NoFrame]
  /\ rimages = Ids
  /\ rsize = [i \in Ids |-> Dim0]
  /\ rpc = "idle"
  /\ todo = {}
  /\ rtick = 0
  /\ mapErr = FALSE

Init == MainInit /\ ConvIdle /\ RenderIdle

\* --------------------------------------------------------- environment
\* The application and the other systems of the plugin act between ticks.
Between == app = "running" /\ ran = {} /\ ~draining

\* the frames read back so far
Pushed == Len(frames[1]) + Len(frames[2])

StartsQueued == Cardinality({k \in 1..Len(events) : events[k].capture_type = "Start"})

\* the application sends an Mp4Capture event
SendEvent ==
  /\ Between
  /\ inputs < MaxInputs
  /\ \E k \in {"Start", "Stop"}, i \in Ids, p \in Paths \cup {NoPath} :
       /\ k = "Start" => (nextTask - 1) + StartsQueued < MaxTasks
       /\ k = "Stop" => p = NoPath
       /\ events' = Append(events, Mp4Capture(k, i, p))
  /\ inputs' = inputs + 1
  /\ UNCHANGED <<app, ran, draining, tasks, pending, nextTask, owner, dims,
                 last, feedLost, chan>>
  /\ UNCHANGED <<envVars, workerVars>>
  /\ UNCHANGED <<fileVars, auxVars>>

\* a recording stops being tracked
Untrack ==
  /\ Between
  /\ inputs < MaxInputs
  /\ \E i \in recorders : recorders' = recorders \ {i}
  /\ inputs' = inputs + 1
  /\ UNCHANGED <<images, imgDims, frames, chan>>
  /\ UNCHANGED <<mainVars, workerVars>>
  /\ UNCHANGED <<fileVars, auxVars>>

\* a target image is removed from the assets
Unresolve ==
  /\ Between
  /\ inputs < MaxInputs
  /\ \E i \in images : images' = images \ {i}
  /\ inputs' = inputs + 1
  /\ UNCHANGED <<recorders, imgDims, frames, chan>>
  /\ UNCHANGED <<mainVars, workerVars>>
  /\ UNCHANGED <<fileVars, auxVars>>

\* a target image is resized
Resize ==
  /\ Between
  /\ inputs < MaxInputs
  /\ \E i \in images, d \in Dims :
       /\ d # imgDims[i]
       /\ imgDims' = [imgDims EXCEPT ![i] = d]
  /\ inputs' = inputs + 1
  /\ UNCHANGED <<recorders, images, frames, chan>>
  /\ UNCHANGED <<mainVars, workerVars>>
  /\ UNCHANGED <<fileVars, auxVars>>

\* the readback of a render tick reaches the recorder's frames: a buffer of
\* (width * height * pixel_size as u32) bytes, with its frame_time
PushFrame ==
  /\ Between
  /\ inputs < MaxInputs
  /\ \E i \in recorders \cap images :
       frames' = [frames EXCEPT
                    ![i] = Append(@, [frame_time |-> FrameTime(Pushed + 1),
                                      len |-> ExpectedSize(imgDims[i])])]
  /\ inputs' = inputs + 1
  /\ UNCHANGED <<recorders, images, imgDims, chan>>
  /\ UNCHANGED <<mainVars, workerVars>>
  /\ UNCHANGED <<fileVars, auxVars>>

\* the application exits: the World and every Mp4Task in it are dropped
Shutdown ==
  /\ Between
  /\ app' = "exited"
  /\ UNCHANGED <<events, ran, draining, tasks, pending, nextTask, owner, dims,
                 last, feedLost, chan>>
  /\ UNCHANGED <<envVars, workerVars, countVars>>
  /\ UNCHANGED <<fileVars, auxVars>>

\* ------------------------------------------------------ manage_mp4_task
\* one iteration of 'event_drain; the system ends with the last event
ManageEvent ==
  /\ app = "running"
  /\ "manage" \notin ran
  /\ events # <<>>
  /\ LET ev == Head(events)
         i  == ev.tracking_id
         k  == ev.capture_type
         Done(o, a) ==
           /\ events' = Tail(events)
           /\ last' = [capture_type |-> k, tracking_id |-> i, outcome |-> o]
           /\ app' = a
           /\ draining' = (a = "running" /\ Tail(events) # <<>>)
           /\ ran' = IF Tail(events) = <<>> THEN ran \cup {"manage"} ELSE ran
     IN
     \/ /\ i \notin recorders
        /\ Done("untracked", "running")
        /\ UNCHANGED <<pending, nextTask, owner, dims, wpc, chan, file>>
     \/ /\ i \in recorders /\ ~Resolvable(i)
        /\ Done("unresolved", "running")
        /\ UNCHANGED <<pending, nextTask, owner, dims, wpc, chan, file>>
     \/ /\ Resolvable(i) /\ k = "Start"
        /\ nextTask \in TaskIds
        /\ pending' = pending \cup {nextTask}
        /\ owner' = [owner EXCEPT ![nextTask] = i]
        /\ dims' = [dims EXCEPT ![nextTask] = imgDims[i]]
        /\ wpc' = [wpc EXCEPT ![nextTask] = "init"]
        /\ file' = [file EXCEPT ![nextTask] = ev.path]
        /\ nextTask' = nextTask + 1
        /\ Done("spawned", "running")
        /\ UNCHANGED chan
     \/ /\ Resolvable(i) /\ k = "Stop"
        /\ StopTargets(i) = {}
        /\ Done("notask", "running")
        /\ UNCHANGED <<pending, nextTask, owner, dims, wpc, chan, file>>
     \/ /\ Resolvable(i) /\ k = "Stop"
        /\ \E t \in StopTargets(i) :
             IF RxAlive(t)
               THEN /\ chan' = [chan EXCEPT ![t] = Append(@, Terminate)]
                    /\ Done("terminated", "running")
               ELSE /\ chan' = chan
                    /\ Done("sendfail", "panicked")
        /\ UNCHANGED <<pending, nextTask, owner, dims, wpc, file>>
  /\ UNCHANGED <<tasks, feedLost, clock>>
  /\ UNCHANGED <<envVars, countVars>>
  /\ UNCHANGED <<rp, position, enc, finished, exitVia>>
  /\ UNCHANGED auxVars

\* manage_mp4_task in a tick without events
ManageEmpty ==
  /\ app = "running"
  /\ "manage" \notin ran
  /\ events = <<>>
  /\ ran' = ran \cup {"manage"}
  /\ UNCHANGED <<app, events, draining, tasks, pending, nextTask, owner, dims,
                 last, feedLost, chan>>
  /\ UNCHANGED <<envVars, workerVars, countVars>>
  /\ UNCHANGED <<fileVars, auxVars>>

\* ---------------------------------------------- send_frame_to_mp4_tasks
SendFrames ==
  /\ app = "running"
  /\ "feed" \notin ran
  /\ ~draining
  /\ LET sent == {t \in FeedTargets : RxAlive(t)}
         lost == {t \in FeedTargets : ~RxAlive(t)}
         msg(t) == LET f == Last(frames[FeedSource(t)])
                   IN Data(f.frame_time, f.len)
     IN
     /\ \A t \in sent : Len(chan[t]) < MaxMsgs
     /\ chan' = [t \in TaskIds |->
                   IF t \in sent THEN Append(chan[t], msg(t)) ELSE chan[t]]
     /\ feedLost' = lost
     /\ app' = FeedApp(lost)
  /\ ran' = ran \cup {"feed"}
  /\ UNCHANGED <<events, draining, tasks, pending, nextTask, owner, dims, last>>
  /\ UNCHANGED <<envVars, workerVars, countVars>>
  /\ UNCHANGED <<fileVars, auxVars>>

\* ------------------------------------- clean_unmonitored_tasks::<Mp4Task>
CleanTasks ==
  /\ app = "running"
  /\ "clean" \notin ran
  /\ ~draining
  /\ IF \E t \in tasks : PollPanics(t)
       THEN /\ app' = "panicked"
            /\ tasks' = tasks
       ELSE /\ app' = app
            /\ tasks' = {t \in tasks : ~IsDone(t)}
  /\ ran' = ran \cup {"clean"}
  /\ UNCHANGED <<events, draining, pending, nextTask, owner, dims, last,
                 feedLost, chan>>
  /\ UNCHANGED <<envVars, workerVars, countVars>>
  /\ UNCHANGED <<fileVars, auxVars>>

\* ------------------------------- end of PostUpdate: commands are applied
ApplyCommands ==
  /\ app = "running"
  /\ ran = Systems
  /\ tasks' = tasks \cup pending
  /\ pending' = {}
  /\ ran' = {}
  /\ last' = NoEvent
  /\ feedLost' = {}
  /\ UNCHANGED <<app, events, draining, nextTask, owner, dims, chan>>
  /\ UNCHANGED <<envVars, workerVars, countVars>>
  /\ UNCHANGED <<fileVars, auxVars>>

\* ------------------------------------------------------ the encode worker
\* what a call of the external encoder returns: Ok, or Err while the
\* environment may still act
EncoderResults == IF inputs < MaxInputs THEN {TRUE, FALSE} ELSE {TRUE}

\* format!("{}.mp4", secs)
TimeName(secs) == ToString(secs) \o ".mp4"

\* event.path.unwrap_or_else(..), Encoder::new(file_name, settings).expect(..)
WorkerInit(t) ==
  /\ wpc[t] = "init"
  /\ IF file[t] = NoPath
       THEN \E secs \in clock..MaxSecs :
              /\ clock' = secs
              /\ file' = [file EXCEPT ![t] = TimeName(secs)]
       ELSE UNCHANGED <<file, clock>>
  /\ \E ok \in EncoderResults :
       /\ wpc' = [wpc EXCEPT ![t] = IF ok THEN "recv" ELSE "panicked"]
       /\ inputs' = IF ok THEN inputs ELSE inputs + 1
  /\ UNCHANGED <<rp, position, enc, finished, exitVia, chan>>
  /\ UNCHANGED <<mainVars, envVars>>
  /\ UNCHANGED auxVars

\* receiver.recv() returns: a message, or Err once the channel is empty and
\* its sender is gone
WorkerRecv(t) ==
  /\ wpc[t] = "recv"
  /\ \/ /\ rp[t] < Len(chan[t])
        /\ LET m == chan[t][rp[t] + 1] IN
           /\ rp' = [rp EXCEPT ![t] = @ + 1]
           /\ wpc' = [wpc EXCEPT ![t] = AfterRecv(m, dims[t])]
           /\ exitVia' = [exitVia EXCEPT ![t] =
                IF AfterRecv(m, dims[t]) = "encode" THEN @
                ELSE IF m.type = "Data" THEN "mismatch" ELSE "terminate"]
     \/ /\ rp[t] = Len(chan[t])
        /\ ~SenderAlive(t)
        /\ rp' = rp
        /\ wpc' = [wpc EXCEPT ![t] = "finish"]
        /\ exitVia' = [exitVia EXCEPT ![t] = "closed"]
  /\ UNCHANGED <<position, enc, finished, chan>>
  /\ UNCHANGED <<mainVars, envVars, countVars>>
  /\ UNCHANGED <<fileVars, auxVars>>

\* Array3::from_shape_fn, encoder.encode(&frame, position).expect(..) and the
\* update of position
WorkerEncode(t) ==
  /\ wpc[t] = "encode"
  /\ LET m == InHand(t) IN
     \E ok \in EncoderResults :
       IF ok
         THEN /\ inputs' = inputs
              /\ enc' = [enc EXCEPT ![t] =
                   Append(@, [pos |-> position[t], dur |-> m.frame_time,
                              len |-> m.len])]
              /\ position' = [position EXCEPT ![t] = Advance(@, m.frame_time)]
              /\ wpc' = [wpc EXCEPT ![t] = "recv"]
         ELSE /\ inputs' = inputs + 1
              /\ wpc' = [wpc EXCEPT ![t] = "panicked"]
              /\ UNCHANGED <<enc, position>>
  /\ UNCHANGED <<rp, finished, exitVia, chan>>
  /\ UNCHANGED <<mainVars, envVars>>
  /\ UNCHANGED <<fileVars, auxVars>>

\* encoder.finish().expect(..), then the future ends
WorkerFinish(t) ==
  /\ wpc[t] = "finish"
  /\ \E ok \in EncoderResults :
       /\ finished' = [finished EXCEPT ![t] = IF ok THEN "ok" ELSE "failed"]
       /\ wpc' = [wpc EXCEPT ![t] = IF ok THEN "done" ELSE "panicked"]
       /\ inputs' = IF ok THEN inputs ELSE inputs + 1
  /\ UNCHANGED <<rp, position, enc, exitVia, chan>>
  /\ UNCHANGED <<mainVars, envVars>>
  /\ UNCHANGED <<fileVars, auxVars>>

\* the Task handle was dropped before the future was first polled
WorkerCancel(t) ==
  /\ wpc[t] = "init"
  /\ app # "running"
  /\ wpc' = [wpc EXCEPT ![t] = "cancelled"]
  /\ UNCHANGED <<rp, position, enc, finished, exitVia, chan>>
  /\ UNCHANGED <<mainVars, envVars, countVars>>
  /\ UNCHANGED <<fileVars, auxVars>>

Worker == \E t \in TaskIds :
  \/ WorkerInit(t)
  \/ WorkerRecv(t)
  \/ WorkerEncode(t)
  \/ WorkerFinish(t)
  \/ WorkerCancel(t)

Next ==
  \/ SendEvent
  \/ Untrack
  \/ Unresolve
  \/ Resize
  \/ PushFrame
  \/ Shutdown
  \/ ManageEvent
  \/ ManageEmpty
  \/ SendFrames
  \/ CleanTasks
  \/ ApplyCommands
  \/ Worker

Spec == Init /\ [][Next]_vars

\* The PostUpdate schedule runs every system in every tick while the
\* application runs, and the task pool keeps running a worker that can take
\* a step.  What the application sends and when it exits is left open.
FairSpec ==
  /\ Spec
  /\ WF_vars(ManageEvent)
  /\ WF_vars(ManageEmpty)
  /\ WF_vars(SendFrames)
  /\ WF_vars(CleanTasks)
  /\ WF_vars(ApplyCommands)
  /\ \A t \in TaskIds :
       /\ WF_vars(WorkerInit(t))
       /\ WF_vars(WorkerRecv(t))
       /\ WF_vars(WorkerEncode(t))
       /\ WF_vars(WorkerFinish(t))

\* ====================================================== one frame converted
\* The loop body of the worker on one frame, element by element: the size
\* check in u32 arithmetic (mp4.rs 83-89) and Array3::from_shape_fn
\* (mp4.rs 90-101).  The main thread and the workers of Spec stand still.
MaxW == 3          \* widths 1..MaxW
MaxH == 2          \* heights 1..MaxH

\* format.pixel_size() of the texture formats: 1 (R8), 2 (Rg8), 4 (Rgba8),
\* 8 (Rgba16), 16 (Rgba32)
PixelSizes == {1, 2, 4, 8, 16}

\* a target of the largest side a device may allow, in the widest format
BigDim == [w |-> 16384, h |-> 16384, ps |-> 16]

ConvDims ==
  {[w |-> x, h |-> y, ps |-> z] : x \in 1..MaxW, y \in 1..MaxH, z \in PixelSizes}
    \cup {BigDim}

\* the longest frame tried
MaxBytes == MaxW * MaxH * 16

\* frame_data of n bytes: byte k (from 0) is k + 1, so that no source byte
\* is zero and no two are equal
Pattern(n) == [k \in 1..n |-> ((k - 1) % 255) + 1]

\* a u32 below 2^31 as four base-256 digits, the lowest first
Digits4(x) ==
  <<x % 256, (x \div 256) % 256, (x \div 65536) % 256, (x \div 16777216) % 256>>

\* schoolbook product of two digit sequences: column k, the carry into it
RECURSIVE ColSum(_, _, _, _)
ColSum(a, b, k, i) ==
  IF i = 0 THEN 0
  ELSE (IF k + 1 - i \in 1..Len(b) THEN a[i] * b[k + 1 - i] ELSE 0)
         + ColSum(a, b, k, i - 1)

RECURSIVE CarryInto(_, _, _)
CarryInto(a, b, k) ==
  IF k = 1 THEN 0
  ELSE (ColSum(a, b, k - 1, Len(a)) + CarryInto(a, b, k - 1)) \div 256

\* the product of two numbers, every digit of it
Mul(a, b) ==
  [k \in 1..(Len(a) + Len(b)) |->
     (ColSum(a, b, k, Len(a)) + CarryInto(a, b, k)) % 256]

\* u32 * u32 in a release build: the low 32 bits
U32Mul(a, b) == SubSeq(Mul(a, b), 1, 4)

\* u32 * u32 loses bits (a debug build panics: "attempt to multiply with
\* overflow")
U32Overflows(a, b) == \E k \in 5..8 : Mul(a, b)[k] # 0

\* width * height * format.pixel_size() as u32
ExpectedSize32(d) ==
  U32Mul(U32Mul(Digits4(d.w), Digits4(d.h)), Digits4(d.ps))

Overflow32(d) ==
  \/ U32Overflows(Digits4(d.w), Digits4(d.h))
  \/ U32Overflows(U32Mul(Digits4(d.w), Digits4(d.h)), Digits4(d.ps))

\* (variant: the width rounded down to an even number)
EvenWidthFloor(w) == (w \div 2) * 2

\* ((width as f64 / 2.0).ceil() * 2.0) as usize
EvenWidth(w) == ((w \div 2) + (IF w % 2 = 0 THEN 0 ELSE 1)) * 2

\* the (h, w, c) that follows in from_shape_fn's row-major order over the
\* shape (height, even_width, 3)
NextCursor(at, ew) ==
  IF at[3] < 2 THEN <<at[1], at[2], at[3] + 1>>
  ELSE IF at[2] + 1 < ew THEN <<at[1], at[2] + 1, 0>>
  ELSE <<at[1] + 1, 0, 0>>

\* w * format.pixel_size() + format.pixel_size() * h * width as usize + c
SourceIndex(d, h, w, c) == w * d.ps + d.ps * h * d.w + c

InitConv ==
  /\ MainInit
  /\ RenderIdle
  /\ cdim \in ConvDims
  /\ \E n \in 0..MaxBytes : cdata = Pattern(n)
  /\ cpc = "check"
  /\ cexp = <<0, 0, 0, 0>>
  /\ cat = <<0, 0, 0>>
  /\ cframe = <<>>

mainAll == <<mainVars, envVars, workerVars, countVars, fileVars, chan>>

\* expected_size is computed and compared with frame_data.len() as u32
ConvCheck ==
  /\ cpc = "check"
  /\ cexp' = ExpectedSize32(cdim)
  /\ \/ /\ Overflow32(cdim)
        /\ cpc' = "overflow"
     \/ cpc' = IF ExpectedSize32(cdim) # Digits4(Len(cdata))
                 THEN "rejected" ELSE "fill"
  /\ UNCHANGED <<cdim, cdata, cat, cframe>>
  /\ UNCHANGED <<mainAll, renderVars>>

\* the closure of from_shape_fn computes one element; after the last one the
\* frame goes to encoder.encode
ConvCell ==
  /\ cpc = "fill"
  /\ LET h   == cat[1]
         w   == cat[2]
         c   == cat[3]
         idx == SourceIndex(cdim, h, w, c)
         nxt == NextCursor(cat, EvenWidth(cdim.w))
     IN
     IF w < cdim.w /\ idx >= Len(cdata)
       THEN /\ cpc' = "oob"
            /\ UNCHANGED <<cat, cframe>>
       ELSE /\ cframe' = Append(cframe, IF w >= cdim.w THEN 0 ELSE cdata[idx + 1])
            /\ cat' = nxt
            /\ cpc' = IF nxt[1] >= cdim.h THEN "encode" ELSE "fill"
  /\ UNCHANGED <<cdim, cdata, cexp>>
  /\ UNCHANGED <<mainAll, renderVars>>

NextConv ==
  \/ ConvCheck
  \/ ConvCell

SpecConv == InitConv /\ [][NextConv]_vars

\* ========================================================= the render world
\* smuggle_frame runs once per render tick; between its ticks the render
\* assets change, and the main world reads the frames under the same lock.
\* The main thread and the workers of Spec stand still.
MaxTicks == 3      \* render ticks over a run

\* width * height * pixel_size() as u32, the size of the readback buffer.
\* Every product over Dims is below 2^31, where the u32 arithmetic is exact.
BufferSize(d) == d.w * d.h * d.ps

\* (variant: the lookup of the image is skipped)
RenderResolvesAlways(i) == TRUE

\* images.get(&recorder.target_handle) is Some
RenderResolves(i) == i \in rimages

InitRender ==
  /\ MainInit
  /\ ConvIdle
  /\ lock = "free"
  /\ last_frame = [i \in Ids |-> NoFrame]
  /\ rimages \in SUBSET Ids
  /\ rsize \in [Ids -> Dims]
  /\ rpc = "idle"
  /\ todo = {}
  /\ rtick = 0
  /\ mapErr = FALSE

\* between two render ticks a target's GPU image appears or goes away
RenderAssetChange ==
  /\ rpc = "idle"
  /\ \E i \in Ids :
       rimages' = IF i \in rimages THEN rimages \ {i} ELSE rimages \cup {i}
  /\ UNCHANGED <<lock, last_frame, rsize, rpc, todo, rtick, mapErr>>
  /\ UNCHANGED <<mainAll, convVars>>

\* the main world takes the lock to read the frames
MainLock ==
  /\ rpc # "panicked"
  /\ lock = "free"
  /\ lock' = "main"
  /\ UNCHANGED <<last_frame, rimages, rsize, rpc, todo, rtick, mapErr>>
  /\ UNCHANGED <<mainAll, convVars>>

MainUnlock ==
  /\ lock = "main"
  /\ lock' = "free"
  /\ UNCHANGED <<last_frame, rimages, rsize, rpc, todo, rtick, mapErr>>
  /\ UNCHANGED <<mainAll, convVars>>

\* smugglers.lock().unwrap(): waits while the lock is held, panics on a
\* poisoned lock; then iter_mut() starts
SmuggleLock ==
  /\ rpc = "idle"
  /\ rtick < MaxTicks
  /\ lock \in {"free", "poisoned"}
  /\ IF lock = "poisoned"
       THEN /\ rpc' = "panicked"
            /\ UNCHANGED <<lock, todo>>
       ELSE /\ lock' = "render"
            /\ rpc' = "iter"
            /\ todo' = Ids
  /\ rtick' = rtick + 1
  /\ UNCHANGED <<last_frame, rimages, rsize, mapErr>>
  /\ UNCHANGED <<mainAll, convVars>>

\* one pass of the loop body, for the recorder iter_mut() yields next: the
\* image lookup, the copy to a buffer of BufferSize bytes, map_async and
\* poll, and the store into last_frame.  A map error panics in the callback
\* while the MutexGuard is alive, which poisons the lock.
SmuggleOne ==
  /\ rpc = "iter"
  /\ \E i \in todo :
       /\ todo' = todo \ {i}
       /\ IF ~RenderResolves(i)
            THEN UNCHANGED <<last_frame, lock, rpc, mapErr>>
            ELSE \E ok \in IF mapErr THEN {TRUE} ELSE {TRUE, FALSE} :
                   IF ok
                     THEN /\ last_frame' = [last_frame EXCEPT ![i] =
                                [len |-> BufferSize(rsize[i]), tick |-> rtick]]
                          /\ UNCHANGED <<lock, rpc, mapErr>>
                     ELSE /\ mapErr' = TRUE
                          /\ rpc' = "panicked"
                          /\ lock' = "poisoned"
                          /\ UNCHANGED last_frame
  /\ UNCHANGED <<rimages, rsize, rtick>>
  /\ UNCHANGED <<mainAll, convVars>>

\* the loop is over: the function returns and the MutexGuard is dropped
SmuggleEnd ==
  /\ rpc = "iter"
  /\ todo = {}
  /\ lock' = "free"
  /\ rpc' = "idle"
  /\ UNCHANGED <<last_frame, rimages, rsize, todo, rtick, mapErr>>
  /\ UNCHANGED <<mainAll, convVars>>

NextRender ==
  \/ RenderAssetChange
  \/ MainLock
  \/ MainUnlock
  \/ SmuggleLock
  \/ SmuggleOne
  \/ SmuggleEnd

SpecRender == InitRender /\ [][NextRender]_vars

\* =================================================================== claims
\* steps of the main thread, recognised from the variables only they change
ManageStep     == events # <<>> /\ events' = Tail(events)
Handles(k, i)  ==
  /\ ManageStep
  /\ Head(events).capture_type = k
  /\ Head(events).tracking_id = i
FeedStep       == "feed" \notin ran /\ "feed" \in ran'
Registered(i)  == {t \in tasks : owner[t] = i}

Received(t)    == SubSeq(chan[t], 1, rp[t])
TermSent(t)    ==
  Cardinality({k \in 1..Len(chan[t]) : chan[t][k].type = "Terminate"})
TermRecv(t)    ==
  Cardinality({k \in 1..rp[t] : chan[t][k].type = "Terminate"})

\* a Data message of exactly width * height * pixel_size bytes
ValidFrame(t, m) ==
  m.type = "Data" /\ m.len = dims[t].w * dims[t].h * dims[t].ps

\* how many messages the worker received before the first one that is not a
\* valid frame
ValidPrefix(t) ==
  Cardinality({k \in 1..rp[t] : \A j \in 1..k : ValidFrame(t, chan[t][j])})

\* ------------------------------------------------------------------- C1
\* C1: handling Stop(id) while no task with owner id is registered changes
\* nothing but the event queue: no panic, no message on any channel, nothing
\* spawned, the registry, the workers and the recordings as they were.
C1_StopUnknownIsNoOp ==
  [][\A i \in Ids :
       (Handles("Stop", i) /\ Registered(i) = {}) =>
         /\ app' = app
         /\ UNCHANGED <<chan, tasks, pending, nextTask, owner, dims>>
         /\ UNCHANGED <<envVars, workerVars>>]_vars

C1_Witness ==
  /\ last.capture_type = "Stop"
  /\ last.outcome = "notask"
  /\ Registered(last.tracking_id) = {}
  /\ \E t \in tasks : RxAlive(t)

\* ------------------------------------------------------------------- C2
\* C2: whenever Stop(id) is handled while a task with owner id is
\* registered (its worker still holding the receiver, so that the send can
\* succeed), a Terminate is appended to the channel of a task of that id.
C2_StopSendsTerminate ==
  [][\A i \in Ids :
       ( /\ Handles("Stop", i)
         /\ Registered(i) # {}
         /\ \A t \in Registered(i) : RxAlive(t) ) =>
         \E t \in Registered(i) : chan'[t] = Append(chan[t], Terminate)]_vars

\* ------------------------------------------------------------------- C3
\* C3: a worker that left its receive loop (Terminate, closed channel or
\* failed validation) and whose future has ended has called encoder.finish.
C3_LoopExitFinalizes ==
  \A t \in TaskIds :
    (exitVia[t] # "none" /\ wpc[t] \in {"done", "panicked"}) =>
      finished[t] # "no"

\* ------------------------------------------------------------------- C4
\* C4: the frames a worker has handed to the encoder are the valid frames it
\* received before the first message that is not a valid frame, in order
\* (all of them once the worker is back at recv or has left the loop; all
\* but the one in hand while it encodes), and nothing else.
C4_EncodesValidPrefix ==
  \A t \in TaskIds :
    /\ Len(enc[t]) <= ValidPrefix(t)
    /\ ValidPrefix(t) <= Len(enc[t]) + 1
    /\ wpc[t] \in {"recv", "finish", "done"} => Len(enc[t]) = ValidPrefix(t)
    /\ \A n \in 1..Len(enc[t]) :
         /\ enc[t][n].dur = chan[t][n].frame_time
         /\ enc[t][n].len = chan[t][n].len

C4_Witness ==
  \E t \in TaskIds :
    /\ exitVia[t] = "mismatch"
    /\ Len(enc[t]) >= 1
    /\ rp[t] = Len(enc[t]) + 1

\* ------------------------------------------------------------------- C5
NonDecreasing(t) ==
  \A n \in 2..Len(enc[t]) : enc[t][n - 1].dur <= enc[t][n].dur

\* C5 as stated: with non-decreasing frame_time, the n-th frame is written
\* at the timestamp of the one before plus its own frame_time.
C5_PositionAddsOwnDuration ==
  \A t \in TaskIds :
    NonDecreasing(t) =>
      /\ Len(enc[t]) >= 1 => enc[t][1].pos = 0
      /\ \A n \in 2..Len(enc[t]) :
           enc[t][n].pos = enc[t][n - 1].pos + enc[t][n].dur

\* C5 amended: the first frame is written at zero and the n-th at the
\* timestamp of the one before plus the frame_time of the one before; the
\* timestamps never decrease.
C5_PositionAddsPreviousDuration ==
  \A t \in TaskIds :
    /\ Len(enc[t]) >= 1 => enc[t][1].pos = 0
    /\ \A n \in 2..Len(enc[t]) :
         /\ enc[t][n].pos = enc[t][n - 1].pos + enc[t][n - 1].dur
         /\ enc[t][n].pos >= enc[t][n - 1].pos
    /\ wpc[t] = "recv" /\ Len(enc[t]) >= 1 =>
         position[t] = enc[t][Len(enc[t])].pos + enc[t][Len(enc[t])].dur

C5_Witness ==
  \E t \in TaskIds :
    /\ Len(enc[t]) >= 2
    /\ enc[t][1].dur < enc[t][2].dur

\* ------------------------------------------------------------------- C6
\* C6: for tracked, resolvable recordings a # b whose registered workers are
\* all running, handling Stop(a) appends Terminate to a channel of a and to
\* no other, leaves b's channel, worker and registration as they were and
\* the application running; every feed appends to the channel of each live
\* task of a tracked recording the back frame of its own recording; and what
\* a worker has encoded is read off its own channel.
C6_RecordingsIndependent ==
  [][/\ \A a \in Ids, b \in Ids :
          ( /\ a # b
            /\ {a, b} \subseteq recorders \cap images
            /\ Handles("Stop", a)
            /\ Registered(a) # {} /\ Registered(b) # {}
            /\ \A t \in Registered(a) \cup Registered(b) : RxAlive(t) ) =>
            /\ app' = "running"
            /\ \A t \in Registered(b) :
                 /\ chan'[t] = chan[t]
                 /\ wpc'[t] = wpc[t] /\ rp'[t] = rp[t] /\ enc'[t] = enc[t]
                 /\ t \in tasks'
            /\ \E t \in Registered(a) :
                 /\ chan'[t] = Append(chan[t], Terminate)
                 /\ \A u \in TaskIds \ {t} : chan'[u] = chan[u]
     /\ FeedStep =>
          \A t \in tasks :
            IF RxAlive(t) /\ owner[t] \in recorders /\ frames[owner[t]] # <<>>
              THEN chan'[t] =
                     Append(chan[t], Data(Last(frames[owner[t]]).frame_time,
                                          Last(frames[owner[t]]).len))
              ELSE chan'[t] = chan[t]
     /\ \A t \in TaskIds : \A n \in 1..Len(enc[t]) :
          enc[t][n].dur = chan[t][n].frame_time]_vars

C6_Witness ==
  \E ta \in tasks, tb \in tasks :
    /\ owner[ta] # owner[tb]
    /\ exitVia[ta] = "terminate" /\ wpc[ta] = "done"
    /\ TermSent(tb) = 0
    /\ wpc[tb] = "recv"
    /\ Len(enc[tb]) >= 1
    /\ enc[ta] = <<>>

\* ------------------------------------------------------------------- C7
\* C7: a feed never panics, whatever the workers are doing; it leaves the
\* registry and the FrameBuffers alone, adds at most one Data message per
\* channel and nothing to the channel of a worker whose receiver is gone.
C7_FeedNeverFails ==
  [][FeedStep =>
       /\ app' = "running"
       /\ UNCHANGED <<tasks, pending, owner, events>>
       /\ UNCHANGED <<envVars, workerVars>>
       /\ \A t \in TaskIds :
            /\ ~RxAlive(t) => chan'[t] = chan[t]
            /\ \/ chan'[t] = chan[t]
               \/ /\ Len(chan'[t]) = Len(chan[t]) + 1
                  /\ SubSeq(chan'[t], 1, Len(chan[t])) = chan[t]
                  /\ Last(chan'[t]).type = "Data"]_vars

C7_Witness ==
  /\ app = "running"
  /\ "feed" \in ran
  /\ feedLost # {}
  /\ \E t \in feedLost : wpc[t] \in {"done", "panicked"}
  /\ \E t \in tasks \ feedLost : Len(chan[t]) >= 1

\* ------------------------------------------------------------------- C8
\* C8: handling Start(id) while id is untracked or its image unresolvable
\* changes nothing but the event queue, from which the request is gone; and
\* an entity is only ever spawned by the handling of a Start whose recording
\* and image resolve at that moment.
C8_UnresolvedStartIgnored ==
  [][/\ \A i \in Ids :
          (Handles("Start", i) /\ ~(i \in recorders /\ i \in images)) =>
            /\ app' = app
            /\ UNCHANGED <<chan, tasks, pending, nextTask, owner, dims>>
            /\ UNCHANGED <<envVars, workerVars>>
     /\ (nextTask' # nextTask \/ pending' \ pending # {}) =>
          \E i \in recorders \cap images : Handles("Start", i)]_vars

C8_Witness ==
  /\ last.capture_type = "Start"
  /\ last.outcome \in {"untracked", "unresolved"}
  /\ ~(last.tracking_id \in recorders /\ last.tracking_id \in images)
  /\ pending = {}
  /\ events # <<>>

WorkerFailed(t) == exitVia[t] = "mismatch" \/ wpc[t] = "panicked"

\* C10: while a worker that failed is registered, no step of a main-tick
\* stage panics.
C10_WorkerFailureContained ==
  [][(app = "running" /\ \E t \in tasks : WorkerFailed(t)) =>
       app' # "panicked"]_vars

\* ------------------------------------------------------------------ C11
\* the position of the first Terminate on the channel (one past the end
\* when there is none)
FirstTerm(t) ==
  IF \E k \in 1..Len(chan[t]) : chan[t][k].type = "Terminate"
    THEN CHOOSE k \in 1..Len(chan[t]) :
           /\ chan[t][k].type = "Terminate"
           /\ \A j \in 1..(k - 1) : chan[t][j].type = "Data"
    ELSE Len(chan[t]) + 1

\* the Data messages sent before the first Terminate, in the order sent
BeforeTerm(t) == SubSeq(chan[t], 1, FirstTerm(t) - 1)

\* what was handed to the encoder, as messages
Encoded(t) == [n \in 1..Len(enc[t]) |-> Data(enc[t][n].dur, enc[t][n].len)]

\* the worker's future has run to its end (no encoder call failed)
Ended(t) == wpc[t] = "done"

\* C11 as stated: a worker that has exited has encoded exactly the Data
\* messages sent before the first Terminate, in order.
C11_EncodesAllBeforeTerminate ==
  \A t \in TaskIds : Ended(t) => Encoded(t) = BeforeTerm(t)

\* C11 amended: at every moment the frames handed to the encoder are, in
\* order and without a gap, the first of the Data messages sent before the
\* first Terminate; they are all of them once the worker has left its loop
\* by Terminate or by the closing of the channel; nothing sent after the
\* first Terminate is ever received.
C11_EncodesInOrderBeforeTerminate ==
  \A t \in TaskIds :
    /\ Len(enc[t]) <= Len(BeforeTerm(t))
    /\ Encoded(t) = SubSeq(BeforeTerm(t), 1, Len(enc[t]))
    /\ exitVia[t] \in {"terminate", "closed"} => Encoded(t) = BeforeTerm(t)
    /\ rp[t] <= FirstTerm(t)

C11_Witness ==
  \E t \in TaskIds :
    /\ exitVia[t] = "terminate"
    /\ wpc[t] = "done"
    /\ Len(enc[t]) >= 1
    /\ Encoded(t) = BeforeTerm(t)
    /\ Len(chan[t]) > FirstTerm(t)

\* ------------------------------------------------------------------ C12
\* the smallest even number that is at least n
SmallestEven(n) == CHOOSE e \in n..(n + 1) : e % 2 = 0

\* element (h, w, c) of a finished frame of the given width
Element(h, w, c, width) == cframe[(h * width + w) * 3 + c + 1]

\* C12: the width given to the encoder is the smallest even number >= W;
\* a frame handed to the encoder has height * that width * 3 elements, and
\* its element (h, w, c) is the source byte at pixel_size*(h*W + w) + c for
\* w < W and zero for w >= W.
C12_PaddedFrame ==
  /\ cpc # "idle" => EvenWidth(cdim.w) = SmallestEven(cdim.w)
  /\ cpc = "encode" =>
       /\ Len(cframe) = cdim.h * SmallestEven(cdim.w) * 3
       /\ \A h \in 0..(cdim.h - 1), w \in 0..(SmallestEven(cdim.w) - 1),
             c \in 0..2 :
            Element(h, w, c, SmallestEven(cdim.w)) =
              IF w < cdim.w
                THEN cdata[cdim.ps * (h * cdim.w + w) + c + 1]
                ELSE 0

C12_Witness ==
  /\ cpc = "encode"
  /\ cdim.w = 3 /\ cdim.h = 2
  /\ Len(cframe) = 24
  /\ Element(1, 3, 2, 4) = 0
  /\ Element(1, 2, 2, 4) = cdata[Len(cdata) - cdim.ps + 3]

\* ------------------------------------------------------------------ C13
\* the worker holds an open encoder on its output file
FileOpen(t) == wpc[t] \in {"recv", "encode", "finish"}

\* C13: no two workers, of different recordings, hold the same output file
\* open at the same time.
C13_OutputFilesDistinct ==
  \A t \in TaskIds, u \in TaskIds :
    (owner[t] # owner[u] /\ FileOpen(t) /\ FileOpen(u)) => file[t] # file[u]

\* ------------------------------------------------------------------ C14
\* Stop(owner of t) is the event handled last, and t's worker was spawned
\* before it
StopProcessed(t) ==
  /\ wpc[t] # "none"
  /\ last.capture_type = "Stop"
  /\ last.tracking_id = owner[t]

\* the worker has left its loop, finalized and ended, and its task is gone
\* from the registry
Reaped(t) ==
  /\ wpc[t] = "done"
  /\ finished[t] = "ok"
  /\ t \notin tasks \cup pending

\* C14: under fair scheduling of the tick and of the workers, and as long as
\* the application keeps running, a worker spawned for id i is, once
\* Stop(i) has been handled, eventually finalized, ended and reaped.
C14_StoppedWorkerReaped ==
  \A t \in TaskIds :
    StopProcessed(t) ~> (Reaped(t) \/ app # "running")

\* ------------------------------------------------------------------ C15
\* the back (most recent) entry of recording i as a Data message
BackMessage(i) ==
  Data(frames[i][Len(frames[i])].frame_time, frames[i][Len(frames[i])].len)

\* C15: a feed makes, for every registered task whose recording is tracked
\* and has a non-empty FrameBuffer, one send of the back entry (it arrives on
\* the channel, or is lost when the worker has dropped its receiver), sent
\* before or not; it sends nothing for any other task and leaves every
\* FrameBuffer as it was.
C15_FeedSendsBackEntry ==
  [][FeedStep =>
       /\ frames' = frames
       /\ \A t \in tasks :
            IF owner[t] \in recorders /\ frames[owner[t]] # <<>>
              THEN IF RxAlive(t)
                     THEN /\ chan'[t] = Append(chan[t], BackMessage(owner[t]))
                          /\ t \notin feedLost'
                     ELSE /\ chan'[t] = chan[t]
                          /\ t \in feedLost'
              ELSE /\ chan'[t] = chan[t]
                   /\ t \notin feedLost'
       /\ \A t \in TaskIds \ tasks :
            chan'[t] = chan[t] /\ t \notin feedLost']_vars

C15_Witness ==
  /\ "feed" \in ran
  /\ \E t \in tasks :
       /\ Len(frames[owner[t]]) = 2
       /\ chan[t] = <<BackMessage(owner[t]), BackMessage(owner[t])>>
  /\ \E u \in tasks : frames[owner[u]] = <<>> /\ chan[u] = <<>>

\* ------------------------------------------------------------------ C16
ReapStep == "clean" \notin ran /\ "clean" \in ran'

\* C16: in every tick the reap of Mp4Task runs after the feed.
C16_FeedBeforeReap == [][ReapStep => "feed" \in ran]_vars

\* ------------------------------------------------------------------ C17
\* smuggle_frame passes over recorder i
Visits(i) == rpc = "iter" /\ i \in todo /\ todo' = todo \ {i}

\* C17: a pass over a recording whose target does not resolve leaves every
\* slot as it was; a pass over one whose target resolves, and whose buffer
\* maps, replaces that slot, and no other, by this tick's buffer of
\* width * height * pixel_size bytes; a slot only changes while the render
\* world holds the lock; and when the loop is over, the slots of exactly the
\* resolvable recordings hold this tick's buffer.
C17_ReadbackSkipsUnresolved ==
  [][/\ \A i \in Ids :
          Visits(i) =>
            IF i \in rimages /\ rpc' = "iter"
              THEN last_frame' = [last_frame EXCEPT ![i] =
                     [len |-> rsize[i].w * rsize[i].h * rsize[i].ps,
                      tick |-> rtick]]
              ELSE last_frame' = last_frame
     /\ last_frame' # last_frame => lock = "render" /\ lock' = "render"
     /\ (rpc = "iter" /\ rpc' = "idle") =>
          \A i \in Ids : (last_frame[i].tick = rtick) <=> (i \in rimages)]_vars

C17_Witness ==
  /\ rpc = "iter"
  /\ todo = {}
  /\ rtick = 2
  /\ \E i \in Ids, j \in Ids :
       /\ i \notin rimages
       /\ last_frame[i].tick = 1
       /\ last_frame[i].len = 4
       /\ j \in rimages
       /\ last_frame[j] = [len |-> 8, tick |-> 2]

\* ------------------------------------------------------------------ C18
\* C18: after a failure to map the readback buffer the render world has not
\* panicked and the shared lock is not poisoned, so that later render ticks
\* still take the lock and deposit frames.
C18_MapFailureContained ==
  mapErr => (rpc # "panicked" /\ lock # "poisoned")

\* ------------------------------------------------------------------ C19
\* C19: no two registered tasks have the same owner id.
C19_OneTaskPerId ==
  \A t \in tasks, u \in tasks : owner[t] = owner[u] => t = u

\* ------------------------------------------------------------------ C20
\* the true product width * height * pixel_size, every digit of it
TrueProduct(d) == Mul(Mul(Digits4(d.w), Digits4(d.h)), Digits4(d.ps))

\* C20: a frame that passed the length check is converted without an index
\* outside frame_data, and the expected size the check used is the true
\* product width * height * pixel_size.
C20_ConversionInRange ==
  cpc \in {"fill", "encode", "oob"} =>
    /\ cpc # "oob"
    /\ \A h \in 0..(cat[1] - 1), w \in 0..(cdim.w - 1), c \in 0..2 :
         SourceIndex(cdim, h, w, c) < Len(cdata)
    /\ TrueProduct(cdim) = cexp \o <<0, 0, 0, 0, 0, 0, 0, 0>>

TypeOK ==
  /\ app \in {"running", "exited", "panicked"}
  /\ tasks \subseteq TaskIds
  /\ pending \subseteq TaskIds
  /\ \A t \in TaskIds : rp[t] <= Len(chan[t])
====
